---- MODULE Spec2Model ----
(***************************************************************************)
(* suitcase.mongo_embedded: the Serializer (ingestion, paging and the      *)
(* staged-commit "freeze" protocol) and its Embedder page buffer.          *)
(*                                                                         *)
(* Threads: the caller (ingestion calls, stop/close/explicit_freeze), the  *)
(* event worker, the datum worker and the count worker.  The two MongoDB   *)
(* databases are modelled as three ordered collections each.               *)
(*                                                                         *)
(* Input discipline: the documents are a well-formed event-model stream    *)
(* (class docstring, lines 36-37): start comes first, a descriptor or      *)
(* resource uid is declared once, and an event (datum) names a descriptor  *)
(* (resource) that was declared before it.                                 *)
(***************************************************************************)
EXTENDS Integers, Sequences, FiniteSets, TLC

(* --------------------------- configuration ----------------------------- *)
\* Serializer(queue_size=1): the capacity of both queues (the default is 20;
\* with 1 a second undelivered document already blocks the caller's put)
QUEUE_SIZE == 1
\* the constructor's limit on embedder_size + page_size
MAX_TOTAL == 15000000
\* the timeout of the workers' queue reads, get(timeout=0.5), as the unit of time
POLL_TIMEOUT == 1
\* Serializer(max_insert_time=...) in that unit; the parameter is not
\* validated, the default is 10 s
MAX_INSERT == 1
\* what one iteration of a worker loop may take, in the same unit: nothing to
\* speak of, up to max_insert_time, or longer (the thread was held up)
Elapsed == 0 .. (MAX_INSERT + 1)
\* Serializer(embedder_size=..., page_size=...) as <<embedder_size, page_size>>:
\* the configuration the runs of Spec and SpecCalls use
SmallConfig == <<2000, 1001>>
\* and the ones SpecPaging tries to construct a Serializer with: the small one,
\* one at the limit of the constructor's sum check, and three past a limit
Configs ==
    {SmallConfig, <<7500000, 7500000>>, <<15000000, 7500000>>,
     <<999, 1000>>, <<2000, 999>>}

(* ------------------------------ bounds --------------------------------- *)
\* event() calls of a run that sends events only (SpecPaging)
MaxEvents == 4
\* event() calls of a run that sends every kind of document (Spec)
MaxMixed == 2
\* event() calls of a run whose caller makes any call at any time (SpecCalls):
\* enough to fill the event queue and block one more put
MaxProbed == QUEUE_SIZE + 1
\* how many of a run's events may be for a descriptor other than the first
MaxOther == 1
\* datum() calls of a run
MaxDatum == 2
\* stop/close/explicit_freeze calls made on one Serializer
MaxFreeze == 2
\* insert() calls with a new document made on one Embedder (SpecEmbedder)
MaxInserts == 4

(* ------------------------------ inputs --------------------------------- *)
RunUids == {"u1", "u2"}
\* the uid of a Serializer's first start document (the uids are interchangeable)
FirstRun == "u1"
NoRun == "None"
Descriptors == {"d1", "d2"}
\* the descriptor a run declares first (the uids are interchangeable)
FirstDescriptor == "d1"
Resources == {"r1"}
Streams == Descriptors \cup Resources
\* len(bson.BSON.encode(doc)) of the event documents the caller sends, for an
\* embedder of max_size e: two of the first fill the embedder exactly and a
\* third does not fit, the second is larger than the whole embedder
SizesFor(e) == {e \div 2, e + (e \div 20)}

\* Python's None and the False sentinel, in the shape of a document
None == [id |-> 0, stream |-> "None", size |-> 0]
False == [id |-> 0, stream |-> "False", size |-> 0]
Doc(i, s, z) == [id |-> i, stream |-> s, size |-> z]

VARIABLES
    EMBED_SIZE,       \* self._EMBED_SIZE
    PAGE_SIZE,        \* self._PAGE_SIZE
    run_uid,          \* self._run_uid
    start_found,      \* self._start_found
    frozen,           \* self._frozen
    worker_error,     \* self._worker_error: "none" or the exception's name
    stop_doc,         \* self._stop_doc: "None" or the stop document
    event_queue,      \* self._event_queue
    datum_queue,      \* self._datum_queue
    event_embedder,   \* self._event_embedder
    datum_embedder,   \* self._datum_embedder
    event_count,      \* self._event_count: index counter per descriptor
    datum_count,      \* self._datum_count
    db_event_count,   \* self._db_event_count
    db_datum_count,   \* self._db_datum_count
    volatile,         \* self._volatile_db: header, event, datum collections
    permanent,        \* self._permanent_db
    ew,               \* the event worker thread: pc, local "event", the dump
    dw,               \* the datum worker thread
    cw,               \* the count worker thread
    caller,           \* the caller thread: the call it is inside, its locals
    ret,              \* how the caller's last finished call ended
    issued,           \* how many calls of each bounded kind were made
    budget            \* how many calls of each kind the caller may make

vars == <<EMBED_SIZE, PAGE_SIZE, run_uid, start_found, frozen, worker_error, stop_doc, event_queue,
          datum_queue, event_embedder, datum_embedder, event_count,
          datum_count, db_event_count, db_datum_count, volatile, permanent,
          ew, dw, cw, caller, ret, issued, budget>>

config == <<EMBED_SIZE, PAGE_SIZE>>
serializer == <<config, run_uid, start_found, frozen, worker_error, stop_doc>>
queues == <<event_queue, datum_queue>>
embedders == <<event_embedder, datum_embedder>>
counters == <<event_count, datum_count, db_event_count, db_datum_count>>
stores == <<volatile, permanent>>
workers == <<ew, dw, cw>>
calls == <<issued, budget>>

(* ------------------------------ helpers -------------------------------- *)
Min(a, b) == IF a < b THEN a ELSE b
Max(a, b) == IF a > b THEN a ELSE b
MinOf(S) == CHOOSE x \in S : \A y \in S : x <= y

RECURSIVE SumOver(_, _)
\* sum(d.values()) of a counter dictionary f over the keys S
SumOver(f, S) ==
    IF S = {} THEN 0
    ELSE LET k == CHOOSE x \in S : TRUE IN f[k] + SumOver(f, S \ {k})

RECURSIVE SelectPages(_, _)
\* db.<collection>.find({<stream key>: stream}), in the collection's order
SelectPages(coll, stream) ==
    IF coll = <<>> THEN <<>>
    ELSE IF Head(coll).stream = stream
         THEN <<Head(coll)>> \o SelectPages(Tail(coll), stream)
         ELSE SelectPages(Tail(coll), stream)

RECURSIVE RemovePages(_, _)
\* db.<collection>.remove({<stream key>: stream})
RemovePages(coll, stream) ==
    IF coll = <<>> THEN <<>>
    ELSE IF Head(coll).stream = stream
         THEN RemovePages(Tail(coll), stream)
         ELSE <<Head(coll)>> \o RemovePages(Tail(coll), stream)

RECURSIVE RemoveHeaders(_, _)
\* db.header.remove({'run_id': run_id})
RemoveHeaders(coll, run_id) ==
    IF coll = <<>> THEN <<>>
    ELSE IF Head(coll).run_id = run_id
         THEN RemoveHeaders(Tail(coll), run_id)
         ELSE <<Head(coll)>> \o RemoveHeaders(Tail(coll), run_id)

(* ------------------------------ Embedder ------------------------------- *)
\* Embedder.__init__: the max_size range check
EmbedderAccepts(max_size) == max_size >= 1000 /\ max_size <= 15000000

\* Embedder.__init__, and the fresh buffer of Embedder.dump
EmbedderNew(max_size) ==
    [embedder |-> [s \in Streams |-> <<>>],
     stream_size |-> [s \in Streams |-> 0],
     current_size |-> 0,
     max_size |-> max_size]

\* Embedder.insert, the size test: TRUE when the document is returned
\* to the caller (the buffer is "full")
EmbedderRejects(e, doc) == (e.current_size + doc.size) > e.max_size

\* an insert that takes the document whatever the buffer holds
EmbedderInsertAlways(e, doc) ==
    [embedder |-> [e.embedder EXCEPT ![doc.stream] = Append(@, doc)],
     stream_size |-> [e.stream_size EXCEPT ![doc.stream] = @ + doc.size],
     current_size |-> e.current_size + doc.size,
     max_size |-> e.max_size]

\* Embedder.insert, the buffer after the call
EmbedderInsert(e, doc) ==
    IF EmbedderRejects(e, doc) THEN e
    ELSE [embedder |-> [e.embedder EXCEPT ![doc.stream] = Append(@, doc)],
          stream_size |-> [e.stream_size EXCEPT ![doc.stream] = @ + doc.size],
          current_size |-> e.current_size + doc.size,
          max_size |-> e.max_size]

\* an insert that never hands a document back
EmbedderInsertResultNone(e, doc) == None

\* Embedder.insert, the returned value: the document, or None
EmbedderInsertResult(e, doc) == IF EmbedderRejects(e, doc) THEN doc ELSE None

\* Embedder.empty
EmbedderEmpty(e) == e.current_size = 0

\* a dump that leaves the per-stream sizes as they were
EmbedderDumpKeepsSizes(e) ==
    [EmbedderNew(e.max_size) EXCEPT !.stream_size = e.stream_size]

\* Embedder.dump, the buffer after the call: a new dictionary, the sizes zero
\* (the caller gets the old dictionary and a copy of the per-stream sizes,
\* modelled as the buffer e itself)
EmbedderDump(e) == EmbedderNew(e.max_size)

\* Embedder.dump, the keys of the returned dictionary
DumpStreams(e) == {s \in Streams : e.embedder[s] # <<>>}

(* ------------------------------ Page Writer ---------------------------- *)
\* an UpdateOne whose first_index is one too high
UpdateOneShifted(stream, docs, size, counter, page_size) ==
    [stream |-> stream, docs |-> docs, size |-> size, page_size |-> page_size,
     first_index |-> counter - Len(docs) + 1, last_index |-> counter - 1]

\* Serializer._updateone_eventpage / _updateone_datumpage: the UpdateOne of
\* one stream, given the index counter after it was advanced
UpdateOne(stream, docs, size, counter, page_size) ==
    [stream |-> stream, docs |-> docs, size |-> size, page_size |-> page_size,
     first_index |-> counter - Len(docs), last_index |-> counter - 1]

\* a filter that leaves out the size test
PageMatchesAnySize(page, stream, page_size) == page.stream = stream

\* the filter of the UpdateOne: an open page of the stream
PageMatches(page, stream, page_size) ==
    page.stream = stream /\ page.size < page_size

\* a store whose $push puts the new array values in front of the page's
ApplyUpdateOnePrepends(coll, op) ==
    LET hits == {i \in 1..Len(coll) : PageMatches(coll[i], op.stream, op.page_size)}
    IN IF hits # {}
       THEN LET i == MinOf(hits)
            IN [coll EXCEPT ![i] =
                   [stream |-> @.stream,
                    docs |-> op.docs \o @.docs,
                    size |-> @.size + op.size,
                    first_index |-> Min(@.first_index, op.first_index),
                    last_index |-> Max(@.last_index, op.last_index)]]
       ELSE Append(coll, [stream |-> op.stream, docs |-> op.docs,
                          size |-> op.size, first_index |-> op.first_index,
                          last_index |-> op.last_index])

\* the store applying one UpdateOne with upsert=True
ApplyUpdateOne(coll, op) ==
    LET hits == {i \in 1..Len(coll) : PageMatches(coll[i], op.stream, op.page_size)}
    IN IF hits # {}
       THEN LET i == MinOf(hits)
            IN [coll EXCEPT ![i] =
                   [stream |-> @.stream,
                    docs |-> @.docs \o op.docs,
                    size |-> @.size + op.size,
                    first_index |-> Min(@.first_index, op.first_index),
                    last_index |-> Max(@.last_index, op.last_index)]]
       ELSE Append(coll, [stream |-> op.stream, docs |-> op.docs,
                          size |-> op.size, first_index |-> op.first_index,
                          last_index |-> op.last_index])

RECURSIVE BulkWrite(_, _, _)
\* collection.bulk_write(operations, ordered=False) for the operations of
\* the streams in S; the operations are on different streams, so the order
\* they are applied in does not show in any find by stream
BulkWrite(coll, ops, S) ==
    IF S = {} THEN coll
    ELSE LET s == CHOOSE x \in S : TRUE
         IN BulkWrite(ApplyUpdateOne(coll, ops[s]), ops, S \ {s})

\* the operations list built by _bulkwrite_event from a dump, given the
\* index counters as _updateone_eventpage left them
Operations(dump, counter, page_size) ==
    [s \in DumpStreams(dump) |->
        UpdateOne(s, dump.embedder[s], dump.stream_size[s], counter[s],
                  page_size)]

\* self._event_count after _updateone_eventpage ran for every dumped stream
AdvanceCount(e, counter) ==
    [s \in DOMAIN counter |-> counter[s] + Len(e.embedder[s])]

(* ------------------------------ header --------------------------------- *)
\* a field that start() pushes a document onto and freeze() later $set-s to
\* a number: 'event_count', 'datum_count'
CountField(pushed, is_set, n) == [pushed |-> pushed, is_set |-> is_set, n |-> n]

\* the header document an upsert creates from the filter {'run_id': run_id}
NewHeader(run_id) ==
    [run_id |-> run_id, start |-> <<>>, descriptors |-> <<>>,
     resources |-> <<>>, stop |-> <<>>,
     event_count |-> CountField(<<>>, FALSE, 0),
     datum_count |-> CountField(<<>>, FALSE, 0),
     counts |-> [s \in Streams |-> 0]]

\* {'$push': {name: doc}} on one header document
PushField(h, name, doc) ==
    CASE name = "start" -> [h EXCEPT !.start = Append(@, doc)]
      [] name = "descriptors" -> [h EXCEPT !.descriptors = Append(@, doc)]
      [] name = "resources" -> [h EXCEPT !.resources = Append(@, doc)]
      [] name = "stop" -> [h EXCEPT !.stop = Append(@, doc)]
      [] name = "event_count" ->
            [h EXCEPT !.event_count = CountField(Append(@.pushed, doc), @.is_set, @.n)]
      [] name = "datum_count" ->
            [h EXCEPT !.datum_count = CountField(Append(@.pushed, doc), @.is_set, @.n)]

\* {'$set': {name: n}} on one header document
SetField(h, name, n) ==
    CASE name = "event_count" -> [h EXCEPT !.event_count = CountField(<<>>, TRUE, n)]
      [] name = "datum_count" -> [h EXCEPT !.datum_count = CountField(<<>>, TRUE, n)]

\* the documents of a header collection that match {'run_id': run_id}
HeaderHits(coll, run_id) == {i \in 1..Len(coll) : coll[i].run_id = run_id}

\* Serializer._insert_header: update_one(..., {'$push': ...}, upsert=True)
InsertHeader(coll, run_id, name, doc) ==
    IF HeaderHits(coll, run_id) # {}
    THEN [coll EXCEPT ![MinOf(HeaderHits(coll, run_id))] = PushField(@, name, doc)]
    ELSE Append(coll, PushField(NewHeader(run_id), name, doc))

\* Serializer._set_header: update_one(..., {'$set': ...}), no upsert
SetHeader(coll, run_id, name, n) ==
    IF HeaderHits(coll, run_id) # {}
    THEN [coll EXCEPT ![MinOf(HeaderHits(coll, run_id))] = SetField(@, name, n)]
    ELSE coll

\* the count worker's update_one: {'$set': {'count_<stream>': n, ...}} for
\* the keys the two db counters hold (a key exists once its count is > 0)
SetCounts(coll, run_id, ec, dc) ==
    IF HeaderHits(coll, run_id) # {}
    THEN [coll EXCEPT ![MinOf(HeaderHits(coll, run_id))] =
            [@ EXCEPT !.counts =
                [s \in Streams |->
                    IF s \in Descriptors /\ ec[s] > 0 THEN ec[s]
                    ELSE IF s \in Resources /\ dc[s] > 0 THEN dc[s]
                    ELSE @[s]]]]
    ELSE coll

(* ------------------------------ run copy ------------------------------- *)
EmptyDb == [header |-> <<>>, event |-> <<>>, datum |-> <<>>]

RECURSIVE PagesOf(_, _)
\* the finds of _get_run over a header's list of stream uids, concatenated
PagesOf(coll, uids) ==
    IF uids = <<>> THEN <<>>
    ELSE SelectPages(coll, Head(uids)) \o PagesOf(coll, Tail(uids))

RECURSIVE RemoveAll(_, _)
\* the removes of _delete_run over a header's list of stream uids
RemoveAll(coll, uids) ==
    IF uids = <<>> THEN coll
    ELSE RemoveAll(RemovePages(coll, Head(uids)), Tail(uids))

\* _get_run / _delete_run: find_one({'run_id': run_uid}) finds a header
RunFound(db, uid) == HeaderHits(db.header, uid) # {}

\* Serializer._get_run (when the header is found): the list of the run's
\* documents, as its header, event and datum sections ('_id' is projected
\* away; the model's documents carry none)
GetRun(db, uid) ==
    LET h == db.header[MinOf(HeaderHits(db.header, uid))]
    IN [header |-> h,
        event |-> PagesOf(db.event, h.descriptors),
        datum |-> PagesOf(db.datum, h.resources)]

\* Serializer._insert_run: insert_one of every document of the list
InsertRun(db, run) ==
    [header |-> Append(db.header, run.header),
     event |-> db.event \o run.event,
     datum |-> db.datum \o run.datum]

\* a _delete_run that removes the header and leaves the pages
DeleteRunHeaderOnly(db, uid) ==
    [db EXCEPT !.header = RemoveHeaders(db.header, uid)]

\* Serializer._delete_run (when the header is found)
DeleteRun(db, uid) ==
    LET h == db.header[MinOf(HeaderHits(db.header, uid))]
    IN [header |-> RemoveHeaders(db.header, uid),
        event |-> RemoveAll(db.event, h.descriptors),
        datum |-> RemoveAll(db.datum, h.resources)]

(* ------------------------------ Init ----------------------------------- *)
\* a constructor without the configuration checks
ConstructorAcceptsAll(embedder_size, page_size) == TRUE

\* Serializer.__init__: the configuration checks (num_threads is unused
\* after its own range check)
ConstructorAccepts(embedder_size, page_size) ==
    /\ ~(page_size < 1000)
    /\ ~(embedder_size + page_size > MAX_TOTAL)
    /\ EmbedderAccepts(embedder_size)

\* what the permanent database may hold when the Serializer is built: nothing,
\* or an event page an earlier, unverified copy left behind
StalePage ==
    [stream |-> "d1", docs |-> <<Doc(9, "d1", 400)>>, size |-> 400,
     first_index |-> 0, last_index |-> 0]
PermanentAtStart == {EmptyDb, [EmptyDb EXCEPT !.event = <<StalePage>>]}

\* how a call ended: the exception it raised ("none": it returned), the
\* message and the exception's __cause__
Raised(name, exc, msg, cause) ==
    [op |-> name, raised |-> exc, msg |-> msg, cause |-> cause]
Returned(name) == Raised(name, "none", "none", "none")
NoRet == Returned("none")
\* the local volatile_run of explicit_freeze before it is assigned
NoRunCopy == [header |-> NewHeader(NoRun), event |-> <<>>, datum |-> <<>>]
Idle == [pc |-> "idle", op |-> "none", doc |-> None, run |-> NoRunCopy]

\* the Serializer after __init__(embedder_size=c[1], page_size=c[2]) returned,
\* the three workers submitted; db is what the permanent database holds
Constructed(c, db) ==
    /\ ConstructorAccepts(c[1], c[2])
    /\ EMBED_SIZE = c[1]
    /\ PAGE_SIZE = c[2]
    /\ run_uid = NoRun
    /\ start_found = FALSE
    /\ frozen = FALSE
    /\ worker_error = "none"
    /\ stop_doc = "None"
    /\ event_queue = <<>>
    /\ datum_queue = <<>>
    /\ event_embedder = EmbedderNew(c[1])
    /\ datum_embedder = EmbedderNew(c[1])
    /\ event_count = [d \in Descriptors |-> 0]
    /\ datum_count = [r \in Resources |-> 0]
    /\ db_event_count = [d \in Descriptors |-> 0]
    /\ db_datum_count = [r \in Resources |-> 0]
    /\ volatile = EmptyDb
    /\ permanent = db
    /\ ew = [pc |-> "get", event |-> None, dump |-> EmbedderNew(c[1]), waited |-> 0]
    /\ dw = [pc |-> "get", datum |-> None]
    /\ cw = [pc |-> "test", aliased |-> FALSE]
    /\ caller = Idle
    /\ ret = NoRet
    /\ issued = [event |-> 0, other |-> 0, datum |-> 0, freeze |-> 0]

\* a run with every kind of document and call
Init ==
    /\ \E db \in PermanentAtStart : Constructed(SmallConfig, db)
    /\ budget = [event |-> MaxMixed, other |-> MaxOther, datum |-> MaxDatum,
                 freeze |-> MaxFreeze]

\* a Serializer whose caller makes any call at any time; the permanent
\* database starts empty
InitCalls ==
    /\ Constructed(SmallConfig, EmptyDb)
    /\ budget = [event |-> MaxProbed, other |-> MaxOther, datum |-> MaxDatum,
                 freeze |-> MaxFreeze]

\* a run of start, descriptors, events and stop
InitPaging ==
    /\ \E c \in Configs, db \in PermanentAtStart : Constructed(c, db)
    /\ budget = [event |-> MaxEvents, other |-> MaxOther, datum |-> 0,
                 freeze |-> MaxFreeze]

(* ------------------------------ caller --------------------------------- *)
Range(q) == {q[i] : i \in 1..Len(q)}

\* a dispatch that refuses a frozen Serializer only
RefusedFrozenOnly == frozen

\* Serializer.__call__: the two checks before the dispatch
Refused == worker_error # "none" \/ frozen

\* Serializer.__call__ raising; nothing else happens in the call
Refuse(name) ==
    /\ ret' = IF worker_error # "none"
              THEN Raised(name, "RuntimeError", "Worker exception", worker_error)
              ELSE Raised(name, "RuntimeError", "frozen Serializer", "none")
    /\ UNCHANGED <<serializer, queues, embedders, counters, stores, workers,
                   caller, calls>>

\* the header of the current run lists the stream uid (the stream was declared)
Declared(uid) ==
    \E i \in HeaderHits(volatile.header, run_uid) :
        uid \in Range(volatile.header[i].descriptors)
                \cup Range(volatile.header[i].resources)

\* a _check_start that lets every start document through
CheckStartNever == FALSE

\* Serializer._check_start: raises on a second start document
CheckStartRaises == start_found

\* Serializer.start (with _check_start), called through __call__
Start(u) ==
    /\ caller.pc = "idle"
    /\ IF Refused THEN Refuse("start")
       ELSE IF CheckStartRaises
       THEN /\ ret' = Raised("start", "RuntimeError", "two start documents",
                            "none")
            /\ UNCHANGED <<serializer, queues, embedders, counters, stores,
                           workers, caller, calls>>
       ELSE /\ start_found' = TRUE
            /\ run_uid' = u
            /\ volatile' = [volatile EXCEPT !.header =
                  InsertHeader(
                    InsertHeader(
                      InsertHeader(@, u, "start", u),
                      u, "event_count", u),
                    u, "datum_count", u)]
            /\ ret' = Returned("start")
            /\ UNCHANGED <<config, frozen, worker_error, stop_doc, queues, embedders,
                           counters, permanent, workers, caller, calls>>

\* Serializer.descriptor, called through __call__
Descriptor(d) ==
    /\ caller.pc = "idle"
    /\ IF Refused THEN Refuse("descriptor")
       ELSE /\ start_found
            /\ ~Declared(d)
            /\ d # FirstDescriptor => Declared(FirstDescriptor)
            /\ volatile' = [volatile EXCEPT !.header =
                  InsertHeader(@, run_uid, "descriptors", d)]
            /\ ret' = Returned("descriptor")
            /\ UNCHANGED <<serializer, queues, embedders, counters, permanent,
                           workers, caller, calls>>

\* Serializer.resource, called through __call__
Resource(r) ==
    /\ caller.pc = "idle"
    /\ IF Refused THEN Refuse("resource")
       ELSE /\ start_found
            /\ ~Declared(r)
            /\ volatile' = [volatile EXCEPT !.header =
                  InsertHeader(@, run_uid, "resources", r)]
            /\ ret' = Returned("resource")
            /\ UNCHANGED <<serializer, queues, embedders, counters, permanent,
                           workers, caller, calls>>

\* Serializer.event, called through __call__: queue.put blocks while the
\* queue is full
Event(d, z) ==
    /\ caller.pc = "idle"
    /\ IF Refused THEN Refuse("event")
       ELSE /\ Declared(d)
            /\ issued.event < budget.event
            /\ d # FirstDescriptor => issued.other < budget.other
            /\ issued' = [issued EXCEPT !.event = @ + 1,
                     !.other = IF d # FirstDescriptor THEN @ + 1 ELSE @]
            /\ UNCHANGED budget
            /\ IF Len(event_queue) < QUEUE_SIZE
               THEN /\ event_queue' = Append(event_queue, Doc(issued.event + 1, d, z))
                    /\ ret' = Returned("event")
                    /\ UNCHANGED caller
               ELSE /\ caller' = [Idle EXCEPT !.pc = "put", !.op = "event",
                                              !.doc = Doc(issued.event + 1, d, z)]
                    /\ UNCHANGED <<config, event_queue, ret>>
            /\ UNCHANGED <<serializer, datum_queue, embedders, counters, stores,
                           workers>>

\* Serializer.datum, called through __call__
Datum(r, z) ==
    /\ caller.pc = "idle"
    /\ IF Refused THEN Refuse("datum")
       ELSE /\ Declared(r)
            /\ issued.datum < budget.datum
            /\ issued' = [issued EXCEPT !.datum = @ + 1]
            /\ UNCHANGED budget
            /\ IF Len(datum_queue) < QUEUE_SIZE
               THEN /\ datum_queue' = Append(datum_queue, Doc(issued.datum + 1, r, z))
                    /\ ret' = Returned("datum")
                    /\ UNCHANGED caller
               ELSE /\ caller' = [Idle EXCEPT !.pc = "put", !.op = "datum",
                                              !.doc = Doc(issued.datum + 1, r, z)]
                    /\ UNCHANGED <<config, datum_queue, ret>>
            /\ UNCHANGED <<serializer, event_queue, embedders, counters, stores,
                           workers>>

\* the blocked queue.put of event() going through once there is room
EventPut ==
    /\ caller.pc = "put"
    /\ caller.op = "event"
    /\ Len(event_queue) < QUEUE_SIZE
    /\ event_queue' = Append(event_queue, caller.doc)
    /\ ret' = Returned(caller.op)
    /\ caller' = Idle
    /\ UNCHANGED <<serializer, datum_queue, embedders, counters, stores,
                   workers, calls>>

\* the blocked queue.put of datum() going through once there is room
DatumPut ==
    /\ caller.pc = "put"
    /\ caller.op = "datum"
    /\ Len(datum_queue) < QUEUE_SIZE
    /\ datum_queue' = Append(datum_queue, caller.doc)
    /\ ret' = Returned(caller.op)
    /\ caller' = Idle
    /\ UNCHANGED <<serializer, event_queue, embedders, counters, stores,
                   workers, calls>>

\* Serializer.event_page / Serializer.datum_page, called through __call__:
\* _bulkwrite_event and _bulkwrite_datum take (buffer, dump_sizes) and are
\* called with the buffer alone, which raises TypeError before anything runs
PageCall(name) ==
    /\ caller.pc = "idle"
    /\ name \in {"event_page", "datum_page"}
    /\ IF Refused THEN Refuse(name)
       ELSE /\ start_found
            /\ ret' = Raised(name, "TypeError", "missing dump_sizes", "none")
            /\ UNCHANGED <<serializer, queues, embedders, counters, stores,
                           workers, caller, calls>>

(* ------------------------------ workers -------------------------------- *)
\* a loop that goes back to the queue read whatever the embedder returned
LoopPcReadsOn(item) == IF item = False THEN "done" ELSE "get"

\* where a stream worker's loop goes on after an iteration, by its local
\* event/datum: the loop ends on False, retries a returned document
LoopPc(item) ==
    IF item = False THEN "done" ELSE IF item = None THEN "get" ELSE "retry"

\* the flush condition of the worker loop (do_push: the queue read timed out;
\* timer: time.monotonic() > last_push + self._MAX_INSERT)
PushNow(item, do_push, timer) == item # None \/ item = False \/ do_push \/ timer

\* the time test of the flush condition: last_push was set at the top of the
\* same iteration (line 185), so the test compares max_insert_time with what
\* this iteration took
TimerExpired(elapsed) == elapsed > MAX_INSERT

\* _event_worker, one loop iteration up to the bulk write: `item` is the
\* local `event` after the queue read, None when the read timed out; `elapsed`
\* is what the iteration took. ew.waited is the time since the worker last
\* entered its flush branch (line 208)
EventIteration(item, do_push, elapsed) ==
    LET inserted == IF item \in {None, False} THEN event_embedder
                    ELSE EmbedderInsert(event_embedder, item)
        event == IF item \in {None, False} THEN item
                 ELSE EmbedderInsertResult(event_embedder, item)
        push == PushNow(event, do_push, TimerExpired(elapsed))
    IN IF push /\ ~EmbedderEmpty(inserted)
       THEN /\ event_embedder' = EmbedderDump(inserted)
            /\ event_count' = AdvanceCount(inserted, event_count)
            /\ ew' = [pc |-> "write", event |-> event, dump |-> inserted,
                      waited |-> 0]
       ELSE /\ event_embedder' = inserted
            /\ ew' = [pc |-> LoopPc(event), event |-> event,
                      dump |-> EmbedderNew(EMBED_SIZE),
                      waited |-> IF push THEN 0 ELSE ew.waited + elapsed]
            /\ UNCHANGED event_count

\* _event_worker: the queue read returns an item
EventGet ==
    /\ ew.pc = "get"
    /\ event_queue # <<>>
    /\ event_queue' = Tail(event_queue)
    /\ \E elapsed \in Elapsed : EventIteration(Head(event_queue), FALSE, elapsed)
    /\ UNCHANGED <<serializer, datum_queue, datum_embedder, datum_count,
                   db_event_count, db_datum_count, stores, dw, cw, caller, ret,
                   calls>>

\* _event_worker: the queue read times out (queue.Empty) with documents buffered
EventTimeout ==
    /\ ew.pc = "get"
    /\ event_queue = <<>>
    /\ ~EmbedderEmpty(event_embedder)
    /\ EventIteration(None, TRUE, POLL_TIMEOUT)
    /\ UNCHANGED <<serializer, queues, datum_embedder, datum_count,
                   db_event_count, db_datum_count, stores, dw, cw, caller, ret,
                   calls>>

\* _event_worker: an iteration that skips the queue read because the local
\* event is a document the embedder returned
EventRetry ==
    /\ ew.pc = "retry"
    /\ \E elapsed \in Elapsed : EventIteration(ew.event, FALSE, elapsed)
    /\ UNCHANGED <<serializer, queues, datum_embedder, datum_count,
                   db_event_count, db_datum_count, stores, dw, cw, caller, ret,
                   calls>>

\* self._db_event_count after a flush: 'count_' + descriptor += len(seq_num)
AddDbCount(dump, db_count) ==
    [s \in DOMAIN db_count |-> db_count[s] + Len(dump.embedder[s])]

\* _event_worker: _bulkwrite_event's bulk_write and the db counters; the store
\* acknowledges every operation, or fails some (the others are applied, the
\* bulk being unordered) and the exception ends the worker (_try_wrapper)
EventWrite ==
    /\ ew.pc = "write"
    /\ \E applied \in SUBSET DumpStreams(ew.dump) :
          /\ volatile' = [volatile EXCEPT !.event =
                BulkWrite(@, Operations(ew.dump, event_count, PAGE_SIZE), applied)]
          /\ IF applied = DumpStreams(ew.dump)
             THEN /\ db_event_count' = AddDbCount(ew.dump, db_event_count)
                  /\ ew' = [pc |-> LoopPc(ew.event), event |-> ew.event,
                            dump |-> EmbedderNew(EMBED_SIZE), waited |-> 0]
                  /\ UNCHANGED worker_error
             ELSE /\ worker_error' = "BulkWriteError"
                  /\ ew' = [pc |-> "done", event |-> ew.event,
                            dump |-> EmbedderNew(EMBED_SIZE), waited |-> 0]
                  /\ UNCHANGED db_event_count
    /\ UNCHANGED <<config, run_uid, start_found, frozen, stop_doc, queues, embedders,
                   event_count, datum_count, db_datum_count, permanent, dw, cw,
                   caller, ret, calls>>

\* _datum_worker, one loop iteration: as the event worker's, but the flush
\* evaluates `datum_dump. dump_sizes` (line 242), an attribute the dumped
\* dictionary does not have: AttributeError after the dump, before any write;
\* _try_wrapper records it and the worker ends
DatumIteration(item, do_push, timer) ==
    LET inserted == IF item \in {None, False} THEN datum_embedder
                    ELSE EmbedderInsert(datum_embedder, item)
        datum == IF item \in {None, False} THEN item
                 ELSE EmbedderInsertResult(datum_embedder, item)
    IN IF PushNow(datum, do_push, timer) /\ ~EmbedderEmpty(inserted)
       THEN /\ datum_embedder' = EmbedderDump(inserted)
            /\ worker_error' = "AttributeError"
            /\ dw' = [pc |-> "done", datum |-> datum]
       ELSE /\ datum_embedder' = inserted
            /\ dw' = [pc |-> LoopPc(datum), datum |-> datum]
            /\ UNCHANGED worker_error

\* _datum_worker: the queue read returns an item
DatumGet ==
    /\ dw.pc = "get"
    /\ datum_queue # <<>>
    /\ datum_queue' = Tail(datum_queue)
    /\ \E timer \in BOOLEAN : DatumIteration(Head(datum_queue), FALSE, timer)
    /\ UNCHANGED <<config, run_uid, start_found, frozen, stop_doc, event_queue,
                   event_embedder, counters, stores, ew, cw, caller, ret, calls>>

\* _datum_worker: the queue read times out with documents buffered
DatumTimeout ==
    /\ dw.pc = "get"
    /\ datum_queue = <<>>
    /\ ~EmbedderEmpty(datum_embedder)
    /\ DatumIteration(None, TRUE, FALSE)
    /\ UNCHANGED <<config, run_uid, start_found, frozen, stop_doc, queues,
                   event_embedder, counters, stores, ew, cw, caller, ret, calls>>

\* _datum_worker: an iteration that retries a returned document
DatumRetry ==
    /\ dw.pc = "retry"
    /\ \E timer \in BOOLEAN : DatumIteration(dw.datum, FALSE, timer)
    /\ UNCHANGED <<config, run_uid, start_found, frozen, stop_doc, queues,
                   event_embedder, counters, stores, ew, cw, caller, ret, calls>>

\* _count_worker: sum(last_event_count.values()); after the first update the
\* local is the very dictionary self._db_event_count (line 270)
LastEventSum == IF cw.aliased THEN SumOver(db_event_count, Descriptors) ELSE 0
LastDatumSum == IF cw.aliased THEN SumOver(db_datum_count, Resources) ELSE 0

\* _count_worker: the test of its update
CountChanged ==
    \/ SumOver(db_event_count, Descriptors) > LastEventSum
    \/ SumOver(db_datum_count, Resources) > LastDatumSum

\* _count_worker: the loop test
CountTest ==
    /\ cw.pc = "test"
    /\ cw' = [cw EXCEPT !.pc = IF frozen THEN "done" ELSE "wait"]
    /\ UNCHANGED <<serializer, queues, embedders, counters, stores, ew, dw,
                   caller, ret, calls>>

\* _count_worker: the wait ends (timeout or set) and the header is updated
\* when the counts grew
CountWake ==
    /\ cw.pc = "wait"
    /\ IF CountChanged
       THEN /\ volatile' = [volatile EXCEPT !.header =
                  SetCounts(@, run_uid, db_event_count, db_datum_count)]
            /\ cw' = [pc |-> "test", aliased |-> TRUE]
       ELSE /\ cw' = [cw EXCEPT !.pc = "test"]
            /\ UNCHANGED volatile
    /\ UNCHANGED <<serializer, queues, embedders, counters, permanent, ew, dw,
                   caller, ret, calls>>

(* ------------------------------ freeze --------------------------------- *)
\* freeze / explicit_freeze, first statement: self._frozen = True; the call
\* then goes on to the two queue.put(False)
EnterFreeze(name) ==
    /\ issued.freeze < budget.freeze
    /\ issued' = [issued EXCEPT !.freeze = @ + 1]
    /\ UNCHANGED budget
    /\ frozen' = TRUE
    /\ caller' = [Idle EXCEPT !.pc = "put_event", !.op = name]

\* Serializer.stop, called through __call__: keeps the document, then close()
Stop ==
    /\ caller.pc = "idle"
    /\ IF Refused THEN Refuse("stop")
       ELSE /\ start_found
            /\ stop_doc' = "stop"
            /\ EnterFreeze("stop")
            /\ UNCHANGED <<config, run_uid, start_found, worker_error, queues,
                           embedders, counters, stores, workers, ret>>

\* Serializer.close: freeze(self._run_uid); not a document, no __call__ checks
Close ==
    /\ caller.pc = "idle"
    /\ EnterFreeze("close")
    /\ UNCHANGED <<config, run_uid, start_found, worker_error, stop_doc, queues,
                   embedders, counters, stores, workers, ret>>

\* Serializer.explicit_freeze(self._run_uid)
ExplicitFreeze ==
    /\ caller.pc = "idle"
    /\ EnterFreeze("explicit_freeze")
    /\ UNCHANGED <<config, run_uid, start_found, worker_error, stop_doc, queues,
                   embedders, counters, stores, workers, ret>>

\* self._event_queue.put(False): blocks while the queue is full
FreezePutEvent ==
    /\ caller.pc = "put_event"
    /\ Len(event_queue) < QUEUE_SIZE
    /\ event_queue' = Append(event_queue, False)
    /\ caller' = [caller EXCEPT !.pc = "put_datum"]
    /\ UNCHANGED <<serializer, datum_queue, embedders, counters, stores,
                   workers, ret, calls>>

\* self._datum_queue.put(False), then (freeze only) self._count.set()
FreezePutDatum ==
    /\ caller.pc = "put_datum"
    /\ Len(datum_queue) < QUEUE_SIZE
    /\ datum_queue' = Append(datum_queue, False)
    /\ caller' = [caller EXCEPT !.pc = "join"]
    /\ UNCHANGED <<serializer, event_queue, embedders, counters, stores,
                   workers, ret, calls>>

\* final counts that take the first stream's counter for the total
FinalCountsFirstStream(hdr) ==
    SetHeader(
        SetHeader(hdr, run_uid, "event_count", event_count[FirstDescriptor]),
        run_uid, "datum_count", SumOver(datum_count, Resources))

\* freeze: the two _set_header calls with the final counts
FinalCounts(hdr) ==
    SetHeader(
        SetHeader(hdr, run_uid, "event_count", SumOver(event_count, Descriptors)),
        run_uid, "datum_count", SumOver(datum_count, Resources))

\* freeze: the volatile database as _get_run reads it, after the final counts
\* and the stop document were written to the header
Finalized(db) ==
    [db EXCEPT !.header = InsertHeader(FinalCounts(@), run_uid, "stop", stop_doc)]

\* the four asserts of freeze / explicit_freeze hold
Drained ==
    /\ event_queue = <<>>
    /\ datum_queue = <<>>
    /\ EmbedderEmpty(event_embedder)
    /\ EmbedderEmpty(datum_embedder)

\* a comparison that looks at the headers only
RunsDifferHeaders(volatile_run, permanent_run) ==
    volatile_run.header # permanent_run.header

\* freeze / explicit_freeze: volatile_run != permanent_run
RunsDiffer(volatile_run, permanent_run) == volatile_run # permanent_run

\* freeze / explicit_freeze: if self._worker_error
WorkerFailed == worker_error # "none"

\* a shutdown of the count executor that does not wait
CountWorkerNotAwaited == TRUE

\* freeze: self._count_executor.shutdown(wait=True) returns, the count worker
\* having left its loop
CountWorkerJoined == cw.pc = "done"

\* freeze, from the three executor shutdown(wait=True) to its end; every
\* other thread has ended by then
FreezeJoin ==
    /\ caller.pc = "join"
    /\ caller.op \in {"stop", "close"}
    /\ CountWorkerJoined
    /\ ew.pc = "done"
    /\ dw.pc = "done"
    /\ caller' = Idle
    /\ IF WorkerFailed
       THEN /\ volatile' = [volatile EXCEPT !.header = FinalCounts(@)]
            /\ ret' = Raised(caller.op, "RuntimeError", "Worker exception",
                             worker_error)
            /\ UNCHANGED permanent
       ELSE IF ~Drained
       THEN /\ volatile' = [volatile EXCEPT !.header = FinalCounts(@)]
            /\ ret' = Raised(caller.op, "AssertionError", "none", "none")
            /\ UNCHANGED permanent
       ELSE LET volatile_run == GetRun(Finalized(volatile), run_uid)
                copied == InsertRun(permanent, volatile_run)
                permanent_run == GetRun(copied, run_uid)
            IN /\ permanent' = copied
               /\ IF RunsDiffer(volatile_run, permanent_run)
                  THEN /\ volatile' = Finalized(volatile)
                       /\ ret' = Raised(caller.op, "IOError",
                                        "Failed to move data", "none")
                  ELSE /\ volatile' = DeleteRun(Finalized(volatile), run_uid)
                       /\ ret' = Returned(caller.op)
    /\ UNCHANGED <<serializer, queues, embedders, counters, workers, calls>>

\* explicit_freeze, from the executor shutdowns (the count executor is not
\* waited for) to the read of the volatile run
ExplicitJoin ==
    /\ caller.pc = "join"
    /\ caller.op = "explicit_freeze"
    /\ ew.pc = "done"
    /\ dw.pc = "done"
    /\ IF WorkerFailed
       THEN /\ ret' = Raised(caller.op, "RuntimeError", "Worker exception",
                             worker_error)
            /\ caller' = Idle
       ELSE IF ~Drained
       THEN /\ ret' = Raised(caller.op, "AssertionError", "none", "none")
            /\ caller' = Idle
       ELSE IF ~RunFound(volatile, run_uid)
       THEN /\ ret' = Raised(caller.op, "RuntimeError", "Run not found", "none")
            /\ caller' = Idle
       ELSE /\ caller' = [caller EXCEPT !.pc = "copy",
                                        !.run = GetRun(volatile, run_uid)]
            /\ UNCHANGED ret
    /\ UNCHANGED <<serializer, queues, embedders, counters, stores, workers,
                   calls>>

\* explicit_freeze, from _insert_run to its end; the count worker may still
\* be running
ExplicitCopy ==
    /\ caller.pc = "copy"
    /\ caller' = Idle
    /\ LET copied == InsertRun(permanent, caller.run)
           permanent_run == GetRun(copied, run_uid)
       IN /\ permanent' = copied
          /\ IF RunsDiffer(caller.run, permanent_run)
             THEN /\ ret' = Raised(caller.op, "IOError", "Failed to move data",
                                   "none")
                  /\ UNCHANGED volatile
             ELSE /\ volatile' = EmptyDb
                  /\ ret' = Returned(caller.op)
    /\ UNCHANGED <<serializer, queues, embedders, counters, workers, calls>>

(* --------------------------- Embedder alone ---------------------------- *)
\* an Embedder('event', max_size) used by a client that calls insert and dump
\* in any order: the buffer is event_embedder, the client keeps what insert
\* returned in ew.event and what dump returned in ew.dump

\* the client calls insert with a new document
InsertNew(d, z) ==
    /\ issued.event < budget.event
    /\ issued' = [issued EXCEPT !.event = @ + 1]
    /\ LET doc == Doc(issued.event + 1, d, z)
       IN /\ event_embedder' = EmbedderInsert(event_embedder, doc)
          /\ ew' = [ew EXCEPT !.event = EmbedderInsertResult(event_embedder, doc)]
    /\ ret' = Returned("insert")
    /\ UNCHANGED <<serializer, queues, datum_embedder, counters, stores, dw,
                   cw, caller, budget>>

\* the client calls insert again with the document insert handed back
InsertAgain ==
    /\ ew.event \notin {None, False}
    /\ event_embedder' = EmbedderInsert(event_embedder, ew.event)
    /\ ew' = [ew EXCEPT !.event = EmbedderInsertResult(event_embedder, ew.event)]
    /\ ret' = Returned("insert")
    /\ UNCHANGED <<serializer, queues, datum_embedder, counters, stores, dw,
                   cw, caller, calls>>

\* the client calls dump
DumpCall ==
    /\ event_embedder' = EmbedderDump(event_embedder)
    /\ ew' = [ew EXCEPT !.dump = event_embedder]
    /\ ret' = Returned("dump")
    /\ UNCHANGED <<serializer, queues, datum_embedder, counters, stores, dw,
                   cw, caller, calls>>

(* ------------------------------ Next ----------------------------------- *)
\* the calls of freeze, close and explicit_freeze and the steps inside them
FreezeStep ==
    \/ Close
    \/ ExplicitFreeze
    \/ FreezePutEvent
    \/ FreezePutDatum
    \/ FreezeJoin
    \/ ExplicitJoin
    \/ ExplicitCopy

\* a caller that sends one run's documents and sends no further document once
\* the Serializer is frozen or a worker has failed; it may close or freeze the
\* Serializer at any time
CallerStep ==
    \/ /\ ~Refused
       /\ \/ ~start_found /\ Start(FirstRun)
          \/ \E d \in Descriptors : Descriptor(d)
          \/ \E r \in Resources : Resource(r)
          \/ \E d \in Descriptors, z \in SizesFor(EMBED_SIZE) : Event(d, z)
          \/ \E r \in Resources, z \in SizesFor(EMBED_SIZE) : Datum(r, z)
          \/ Stop
    \/ EventPut
    \/ DatumPut
    \/ FreezeStep

EventWorkerStep == EventGet \/ EventTimeout \/ EventRetry \/ EventWrite
DatumWorkerStep == DatumGet \/ DatumTimeout \/ DatumRetry
CountWorkerStep == CountTest \/ CountWake
WorkerStep == EventWorkerStep \/ DatumWorkerStep \/ CountWorkerStep

Next == CallerStep \/ WorkerStep

Spec == Init /\ [][Next]_vars

\* a caller that sends start, descriptors, events and stop, and stops calling
\* once a call has raised
PagingCallerStep ==
    \/ /\ ~Refused
       /\ \/ ~start_found /\ Start(FirstRun)
          \/ \E d \in Descriptors : Descriptor(d)
          \/ \E d \in Descriptors, z \in SizesFor(EMBED_SIZE) : Event(d, z)
          \/ Stop
    \/ EventPut
    \/ FreezePutEvent
    \/ FreezePutDatum
    \/ FreezeJoin

NextPaging ==
    PagingCallerStep \/ EventWorkerStep \/ DatumGet \/ CountWorkerStep

SpecPaging == InitPaging /\ [][NextPaging]_vars

\* a caller that makes any call at any time: documents after a failure or a
\* freeze, a second start document, event_page and datum_page documents
AnyCallerStep ==
    \/ \E u \in RunUids : (start_found \/ u = FirstRun) /\ Start(u)
    \/ \E d \in Descriptors : Descriptor(d)
    \/ \E r \in Resources : Resource(r)
    \/ \E d \in Descriptors, z \in SizesFor(EMBED_SIZE) : Event(d, z)
    \/ \E r \in Resources, z \in SizesFor(EMBED_SIZE) : Datum(r, z)
    \/ \E name \in {"event_page", "datum_page"} : PageCall(name)
    \/ Stop
    \/ EventPut
    \/ DatumPut
    \/ FreezeStep

NextCalls == AnyCallerStep \/ WorkerStep

SpecCalls == InitCalls /\ [][NextCalls]_vars

\* the steps a call already begun goes on with: the blocking queue puts and
\* what follows the executor shutdowns
CallGoesOn ==
    \/ EventPut
    \/ DatumPut
    \/ FreezePutEvent
    \/ FreezePutDatum
    \/ FreezeJoin
    \/ ExplicitJoin
    \/ ExplicitCopy

\* scheduling: each worker thread and the calling thread get to run whenever
\* they can take a step; the caller need not make another call
Fairness ==
    /\ WF_vars(EventWorkerStep)
    /\ WF_vars(DatumWorkerStep)
    /\ WF_vars(CountWorkerStep)
    /\ WF_vars(CallGoesOn)

\* a run with every kind of document and one call of stop, close or
\* explicit_freeze; the permanent database starts empty
InitLive ==
    /\ Constructed(SmallConfig, EmptyDb)
    /\ budget = [event |-> MaxMixed, other |-> MaxOther, datum |-> MaxDatum,
                 freeze |-> 1]

\* the runs of such a caller under fair scheduling
SpecLive == InitLive /\ [][Next]_vars /\ Fairness

\* an Embedder and its client
InitEmbedder ==
    /\ Constructed(SmallConfig, EmptyDb)
    /\ budget = [event |-> MaxInserts, other |-> 0, datum |-> 0, freeze |-> 0]

NextEmbedder ==
    \/ \E d \in Descriptors, z \in SizesFor(EMBED_SIZE) : InsertNew(d, z)
    \/ InsertAgain
    \/ DumpCall

SpecEmbedder == InitEmbedder /\ [][NextEmbedder]_vars

(* ------------------------------ properties ----------------------------- *)
\* the step in which a call of freeze (from stop or close) ends
FreezeEnds ==
    /\ caller.pc = "join"
    /\ caller.op \in {"stop", "close"}
    /\ caller'.pc = "idle"

\* the database holds no header and no page of the run
NoDocumentOfRun(db, run) ==
    /\ ~RunFound(db, run.header.run_id)
    /\ \A i \in 1..Len(db.event) :
          db.event[i].stream \notin Range(run.header.descriptors)
    /\ \A i \in 1..Len(db.datum) :
          db.datum[i].stream \notin Range(run.header.resources)

\* C1: when freeze returns without raising, the volatile store holds no
\* header, event page or datum page of the run, and the run read back from
\* the permanent store equals the run that was read from the volatile store
\* just before the copy.
C1_FreezeMovesRun ==
    [][(FreezeEnds /\ ret'.raised = "none") =>
          LET volatile_run == GetRun(Finalized(volatile), run_uid)
          IN /\ NoDocumentOfRun(volatile', volatile_run)
             /\ RunFound(permanent', run_uid)
             /\ GetRun(permanent', run_uid) = volatile_run]_vars

\* a freeze has returned and the permanent store holds the run's header with
\* its stop document and a page of the run's events
C1_Witness ==
    /\ ret.op \in {"stop", "close"}
    /\ ret.raised = "none"
    /\ volatile.header = <<>>
    /\ \E i \in 1..Len(permanent.header) : permanent.header[i].stop # <<>>
    /\ \E i \in 1..Len(permanent.event) :
          \E j \in 1..Len(permanent.event[i].docs) :
              permanent.event[i].docs[j].id >= 1

\* C2: if the run read back from the permanent store differs from the one
\* read from the volatile store, freeze and explicit_freeze raise IOError and
\* the volatile store keeps every document it held at the comparison.
C2_MismatchKeepsVolatile ==
    [][/\ ( /\ FreezeEnds
            /\ permanent' # permanent
            /\ GetRun(permanent', run_uid) # GetRun(Finalized(volatile), run_uid) )
          => (ret'.raised = "IOError" /\ volatile' = Finalized(volatile))
       /\ ( /\ caller.pc = "copy"
            /\ caller'.pc = "idle"
            /\ GetRun(permanent', run_uid) # caller.run )
          => (ret'.raised = "IOError" /\ volatile' = volatile)]_vars

\* a freeze ended with the integrity error and the volatile store still
\* holds the run's header and event pages
C2_Witness ==
    /\ ret.raised = "IOError"
    /\ volatile.header # <<>>
    /\ volatile.event # <<>>

\* C8, what freeze does once it is past the joins: when a worker has recorded
\* an error it raises an error whose cause is that exception, inserts nothing
\* into the permanent store, appends no stop document and removes nothing
\* from the volatile store.
FreezeRaisesWorkerError ==
    [][(FreezeEnds /\ worker_error # "none") =>
          /\ ret'.raised = "RuntimeError"
          /\ ret'.cause = worker_error
          /\ permanent' = permanent
          /\ volatile'.event = volatile.event
          /\ volatile'.datum = volatile.datum
          /\ Len(volatile'.header) = Len(volatile.header)
          /\ \A i \in 1..Len(volatile.header) :
                /\ volatile'.header[i].stop = volatile.header[i].stop
                /\ volatile'.header[i].start = volatile.header[i].start
                /\ volatile'.header[i].descriptors = volatile.header[i].descriptors
                /\ volatile'.header[i].resources = volatile.header[i].resources]_vars

\* a freeze raised the worker's error; the run is still in the volatile store
C8_Witness ==
    /\ ret.op \in {"stop", "close"}
    /\ ret.raised = "RuntimeError"
    /\ ret.cause \in {"AttributeError", "BulkWriteError"}
    /\ volatile.header # <<>>
    /\ permanent.header = <<>>

\* C8: a freeze called after a worker has recorded an error returns control
\* to the caller by raising that error.  To get there it has to enqueue its
\* two sentinels, so it is never called with a queue that is full and whose
\* worker has ended: nothing would make room and the call would not return.
C8_FreezeReturnsControl ==
    [][( /\ caller.pc = "idle"
         /\ caller'.pc = "put_event"
         /\ caller'.op \in {"stop", "close"}
         /\ worker_error # "none" )
          => /\ ew.pc = "done" => Len(event_queue) < QUEUE_SIZE
             /\ dw.pc = "done" => Len(datum_queue) < QUEUE_SIZE]_vars

(* the pages of a collection *)
\* the places <<page, position>> of the document `id` in a collection
Places(coll, id) ==
    {pl \in UNION {{<<i, j>> : j \in 1..Len(coll[i].docs)} : i \in 1..Len(coll)} :
        coll[pl[1]].docs[pl[2]].id = id}

\* a call of stop has returned without raising
StopReturned == caller.pc = "idle" /\ ret.op = "stop" /\ ret.raised = "none"

\* C3: after start, descriptors, events and a stop whose freeze returned
\* without raising, every event whose call returned appears exactly once in
\* the permanent store's event pages, in a page of its own descriptor.
C3_EveryEventOnce ==
    StopReturned =>
        \A id \in 1..issued.event :
            /\ Cardinality(Places(permanent.event, id)) = 1
            /\ \A pl \in Places(permanent.event, id) :
                  permanent.event[pl[1]].docs[pl[2]].stream
                      = permanent.event[pl[1]].stream

\* a stop returned after at least three events of which the third was handed
\* back by the full embedder, and the first descriptor's events are on two
\* pages
C3_Witness ==
    /\ StopReturned
    /\ issued.event >= 3
    /\ Len(SelectPages(permanent.event, FirstDescriptor)) >= 2

\* the index range of a page
IndexRange(page) == page.first_index .. page.last_index

RECURSIVE DocCount(_)
\* the number of documents on the pages of a sequence
DocCount(pages) ==
    IF pages = <<>> THEN 0 ELSE Len(Head(pages).docs) + DocCount(Tail(pages))

\* the pages' index ranges are pairwise disjoint and cover 0..N-1, N the
\* number of documents on them
RangesTile(pages) ==
    /\ \A i, j \in 1..Len(pages) :
          i # j => IndexRange(pages[i]) \cap IndexRange(pages[j]) = {}
    /\ UNION {IndexRange(pages[i]) : i \in 1..Len(pages)}
          = 0 .. (DocCount(pages) - 1)

\* C4: whenever no bulk write is in flight, for every descriptor and resource
\* the [first_index, last_index] ranges of its pages in the volatile store
\* are pairwise disjoint and their union is 0..N-1, N the number of documents
\* written for the stream.
C4_IndexRangesTile ==
    ew.pc # "write" =>
        /\ \A d \in Descriptors : RangesTile(SelectPages(volatile.event, d))
        /\ \A r \in Resources : RangesTile(SelectPages(volatile.datum, r))

\* no write is in flight and a descriptor has two pages, one of them with
\* documents of more than one flush
C4_Witness ==
    /\ ew.pc # "write"
    /\ \E d \in Descriptors :
          LET pages == SelectPages(volatile.event, d)
          IN /\ Len(pages) >= 2
             /\ \E i \in 1..Len(pages) : Len(pages[i].docs) >= 3

\* the size of the largest document on a page
LargestDoc(page) ==
    CHOOSE z \in {page.docs[j].size : j \in 1..Len(page.docs)} :
        \A j \in 1..Len(page.docs) : page.docs[j].size <= z

\* C5 as stated: the recorded size of a page in the volatile store never
\* exceeds the page-size threshold by more than the size of one document.
C5_OverByOneDocument ==
    \A i \in 1..Len(volatile.event) :
        volatile.event[i].size - PAGE_SIZE <= LargestDoc(volatile.event[i])

\* C5, amended: a bulk write adds to a page only while the page's recorded
\* size is below the threshold, and adds one flushed batch of the stream, at
\* most embedder_size; it creates a page only when the stream has no page
\* below the threshold.  So a page exceeds the threshold by less than one
\* batch, and once the threshold is reached the next write for the stream
\* creates a new page.
C5_OverByOneBatch ==
    [][(ew.pc = "write" /\ ew'.pc # "write") =>
          \A i \in 1..Len(volatile'.event) :
              LET new == volatile'.event[i]
              IN IF i <= Len(volatile.event)
                 THEN LET old == volatile.event[i]
                      IN new # old =>
                            /\ old.size < PAGE_SIZE
                            /\ new.stream = old.stream
                            /\ new.size - old.size <= EMBED_SIZE
                 ELSE /\ new.size <= EMBED_SIZE
                      /\ \A k \in 1..Len(volatile.event) :
                            volatile.event[k].stream = new.stream
                                => volatile.event[k].size >= PAGE_SIZE]_vars

\* a page went over the threshold by more than its largest document, and the
\* next write for its descriptor made a new page
C5_Witness ==
    \E i, k \in 1..Len(volatile.event) :
        /\ i < k
        /\ volatile.event[i].stream = volatile.event[k].stream
        /\ volatile.event[i].size - PAGE_SIZE > LargestDoc(volatile.event[i])

\* C6: for every configuration the constructor accepts, the recorded size of
\* every event page and datum page in the volatile store is below
\* page_size + embedder_size, and so below 15,000,000.
C6_PageSizeBelowLimit ==
    \A page \in Range(volatile.event) \cup Range(volatile.datum) :
        /\ page.size < PAGE_SIZE + EMBED_SIZE
        /\ page.size < MAX_TOTAL

\* a page one byte under the limit: a page one batch under the threshold
\* took a batch that filled the embedder
C6_Witness ==
    /\ PAGE_SIZE + EMBED_SIZE < MAX_TOTAL
    /\ \E i \in 1..Len(volatile.event) :
          volatile.event[i].size = PAGE_SIZE + EMBED_SIZE - 1

(* the calls made through __call__ *)
\* the step in which a call made through __call__ ends without having
\* blocked: the caller is outside any call before and after it, and the
\* record of the last finished call changes
DispatchedCall == caller.pc = "idle" /\ caller'.pc = "idle" /\ ret' # ret

\* C7: once a worker error is recorded or the Serializer is frozen, every
\* call made through __call__ raises RuntimeError at once, enqueues nothing
\* and writes nothing to either store; when a worker error is recorded the
\* raised error's cause is the worker's exception.
C7_RefusedCallChangesNothing ==
    [][(DispatchedCall /\ (worker_error # "none" \/ frozen)) =>
          /\ ret'.op \in {"start", "descriptor", "resource", "event", "datum",
                          "event_page", "datum_page", "stop"}
          /\ ret'.raised = "RuntimeError"
          /\ worker_error # "none" => ret'.cause = worker_error
          /\ UNCHANGED <<serializer, queues, embedders, counters, stores,
                         workers>>]_vars

\* an event() call was refused with the event worker's exception as its
\* cause while the Serializer was not frozen
C7_Witness ==
    /\ ret.op = "event"
    /\ ret.raised = "RuntimeError"
    /\ ret.cause = "BulkWriteError"
    /\ worker_error = "BulkWriteError"
    /\ ~frozen

\* C9: a start call on a Serializer that already had its start document
\* raises RuntimeError; the run identifier and the volatile header are the
\* same after it as before, and so is everything else.
C9_SecondStartChangesNothing ==
    [][(DispatchedCall /\ start_found /\ ret'.op = "start") =>
          /\ ret'.raised = "RuntimeError"
          /\ run_uid' = run_uid
          /\ volatile'.header = volatile.header
          /\ UNCHANGED <<serializer, queues, embedders, counters, stores,
                         workers>>]_vars

\* the second start document of a running, unfrozen Serializer was refused
\* by _check_start
C9_Witness ==
    /\ ret.op = "start"
    /\ ret.raised = "RuntimeError"
    /\ ret.msg = "two start documents"
    /\ run_uid = FirstRun
    /\ ~frozen
    /\ worker_error = "none"

\* C10: an event_page (datum_page) call on a running, unfrozen Serializer
\* with no worker error returns its document, and has by then written the
\* page to the volatile event (datum) collection, leaving queues and
\* embedders alone.
C10_PageCallWrites ==
    [][( /\ DispatchedCall
         /\ start_found /\ ~frozen /\ worker_error = "none"
         /\ ret'.op \in {"event_page", "datum_page"} )
          => /\ ret'.raised = "none"
             /\ ret'.op = "event_page" => volatile'.event # volatile.event
             /\ ret'.op = "datum_page" => volatile'.datum # volatile.datum
             /\ UNCHANGED <<queues, embedders>>]_vars

(* the Embedder *)
\* the documents a client may pass to insert next
NextDocs ==
    {Doc(issued.event + 1, d, z) : d \in Descriptors, z \in SizesFor(EMBED_SIZE)}
        \cup ({ew.event} \ {None, False})

C13_DatumFlushWrites ==
    [][(~EmbedderEmpty(datum_embedder) /\ EmbedderEmpty(datum_embedder')) =>
          /\ worker_error' = worker_error
          /\ \A r \in Resources :
                LET n == Len(datum_embedder.embedder[r])
                IN /\ DocCount(SelectPages(volatile'.datum, r))
                        = DocCount(SelectPages(volatile.datum, r)) + n
                   /\ db_datum_count'[r] = db_datum_count[r] + n]_vars

(* the drain check *)
\* C14: whenever freeze or explicit_freeze gets past its worker-error check,
\* both queues and both embedders are empty, so its four asserts hold; also
\* in a close() that follows a stop().
C14_DrainedAtCheck ==
    [][(caller.pc = "join" /\ caller'.pc # "join" /\ worker_error = "none")
          => Drained]_vars
\* C15: the event worker attempts a flush whenever more than max_insert_time
\* has passed since its last flush attempt: no iteration of its loop ends with
\* documents buffered, no flush made and more than max_insert_time waited
C15_FlushWithinMaxInsert ==
    (ew.pc = "get" /\ ~EmbedderEmpty(event_embedder)) => ew.waited <= MAX_INSERT

\* the per-stream counts the run's volatile header holds: what the count
\* worker last wrote (zero before its first update)
WrittenCounts(db) == db.header[MinOf(HeaderHits(db.header, run_uid))].counts

\* C16: on every wake of the count worker with the summed event or datum
\* insert counts above the values it last wrote, the header is updated to the
\* latest per-stream counts, on the second and later increases as on the first
C16_CountUpdateOnIncrease ==
    [][(/\ cw.pc = "wait"
        /\ cw'.pc = "test"
        /\ HeaderHits(volatile.header, run_uid) # {}
        /\ \/ SumOver(db_event_count, Descriptors)
                  > SumOver(WrittenCounts(volatile), Descriptors)
           \/ SumOver(db_datum_count, Resources)
                  > SumOver(WrittenCounts(volatile), Resources))
       => /\ HeaderHits(volatile'.header, run_uid) # {}
          /\ \A d \in Descriptors : WrittenCounts(volatile')[d] = db_event_count[d]
          /\ \A r \in Resources : WrittenCounts(volatile')[r] = db_datum_count[r]]_vars

\* a call of stop or close on a started Serializer has returned without raising
FreezeSucceeded ==
    /\ caller.pc = "idle"
    /\ ret.op \in {"stop", "close"}
    /\ ret.raised = "none"
    /\ start_found

\* C17: after a successful freeze the run's header in the permanent database
\* holds, as event_count and datum_count, the number of event and datum
\* documents on the run's pages in the permanent database
C17_FinalCountsMatchPages ==
    FreezeSucceeded =>
        /\ RunFound(permanent, run_uid)
        /\ LET run == GetRun(permanent, run_uid)
           IN /\ run.header.event_count = CountField(<<>>, TRUE, DocCount(run.event))
              /\ run.header.datum_count = CountField(<<>>, TRUE, DocCount(run.datum))

\* a freeze succeeded on a run with events of both descriptors on its pages
C17_Witness ==
    /\ FreezeSucceeded
    /\ RunFound(permanent, run_uid)
    /\ DocCount(GetRun(permanent, run_uid).event) >= 2
    /\ \A d \in Descriptors : SelectPages(permanent.event, d) # <<>>

\* C18: once freeze has put the sentinel on both queues, each stream worker
\* eventually leaves its loop, so that the executor shutdowns return
C18_WorkersExitAfterSentinel ==
    (caller.pc = "join") ~> (ew.pc = "done" /\ dw.pc = "done")

\* C19: a caller blocked in a queue put (of event, of datum, or of freeze's
\* sentinels) eventually gets past it
C19_BlockedPutEnds ==
    (caller.pc \in {"put", "put_event", "put_datum"})
        ~> (caller.pc \notin {"put", "put_event", "put_datum"})

\* the event worker has seen the sentinel: it is flushing what remains
\* (DRAINING) or has left its loop (STOPPED)
EventWorkerDraining == ew.event = False /\ ew.pc \in {"write", "done"}

\* the event worker leaves its loop and no exception is recorded in that step
EventWorkerExits ==
    ew.pc # "done" /\ ew'.pc = "done" /\ worker_error' = worker_error

\* the datum worker leaves its loop and no exception is recorded in that step
DatumWorkerExits ==
    dw.pc # "done" /\ dw'.pc = "done" /\ worker_error' = worker_error

\* C20: a stream worker that leaves its loop without raising has read the
\* sentinel and has flushed what its buffer held (for the event worker: every
\* document it took for a page is written); a worker that has seen the
\* sentinel or has ended stays so and dequeues nothing; a document the full
\* buffer returned is still the worker's after the flush, the worker reads
\* nothing from the queue while it holds it, and its next iteration puts it
\* into the buffer
C20_WorkerLifeCycle ==
    [][/\ EventWorkerExits =>
            /\ ew'.event = False
            /\ EmbedderEmpty(event_embedder')
            /\ db_event_count' = event_count'
       /\ DatumWorkerExits =>
            /\ dw'.datum = False
            /\ EmbedderEmpty(datum_embedder')
       /\ EventWorkerDraining =>
            /\ ew'.event = False
            /\ ew'.pc \in {"write", "done"}
       /\ ew.pc = "done" => ew'.pc = "done"
       /\ dw.pc = "done" => dw'.pc = "done"
       /\ ew.pc # "get" => Len(event_queue') >= Len(event_queue)
       /\ dw.pc # "get" => Len(datum_queue') >= Len(datum_queue)
       /\ (/\ ew.pc = "write"
           /\ ew'.pc # "write"
           /\ ew.event \notin {None, False}
           /\ worker_error' = worker_error)
          => /\ ew'.pc = "retry"
             /\ ew'.event = ew.event
             /\ EmbedderEmpty(event_embedder')
       /\ (ew.pc = "retry" /\ ew' # ew)
          => \/ ew.event \in Range(event_embedder'.embedder[ew.event.stream])
             \/ ew.event \in Range(ew'.dump.embedder[ew.event.stream])]_vars

\* the event worker has left its loop on the sentinel without an error, after
\* three or more events that fill the buffer two by two were written
C20_Witness ==
    /\ ew.pc = "done"
    /\ ew.event = False
    /\ worker_error = "none"
    /\ EMBED_SIZE = SmallConfig[1]
    /\ event_queue = <<>>
    /\ SumOver(db_event_count, Descriptors) >= 3

\* the document `id` is in the buffer of an Embedder
InBuffer(e, id) ==
    \E s \in Streams : \E k \in 1..Len(e.embedder[s]) : e.embedder[s][k].id = id

\* every event the event worker's buffer accepted gets onto a page of the
\* volatile database, unless the store fails a bulk write
BufferedEventsWritten ==
    \A id \in 1..MaxMixed :
        InBuffer(event_embedder, id)
            ~> (Places(volatile.event, id) # {} \/ worker_error = "BulkWriteError")

\* C21: every document a stream worker's buffer accepted gets onto a page of
\* the volatile database (at the latest when the queue read times out),
\* unless the store fails a bulk write
C21_BufferedEventuallyWritten ==
    /\ BufferedEventsWritten
    /\ \A id \in 1..MaxDatum :
          InBuffer(datum_embedder, id)
              ~> (Places(volatile.datum, id) # {} \/ worker_error = "BulkWriteError")

\* the documents of each stream, read page by page by increasing first_index
\* and on a page by array position, come with increasing ids: the caller
\* numbers the documents of a queue in the order it enqueues them
EnqueueOrder(coll) ==
    \A i, k \in 1..Len(coll) :
        coll[i].stream = coll[k].stream =>
            /\ i # k => coll[i].first_index # coll[k].first_index
            /\ \A j \in 1..Len(coll[i].docs), l \in 1..Len(coll[k].docs) :
                  (\/ coll[i].first_index < coll[k].first_index
                   \/ (i = k /\ j < l))
                  => coll[i].docs[j].id < coll[k].docs[l].id

ExplicitFreezeDrops ==
    /\ caller.pc = "copy"
    /\ caller'.pc = "idle"
    /\ ret'.op = "explicit_freeze"
    /\ ret'.raised = "none"

\* once explicit_freeze has dropped the volatile collections no write of the
\* count worker brings a header back
NoHeaderAfterDrop ==
    [][(/\ caller.pc = "idle"
        /\ ret.op = "explicit_freeze"
        /\ ret.raised = "none"
        /\ cw'.pc # cw.pc)
       => volatile'.header = <<>>]_vars

\* C23: when explicit_freeze succeeds, the run's header in the permanent
\* database is the volatile header as it stands when the volatile collections
\* are dropped (no update of the count worker is lost), and the volatile
\* header collection is empty after the drop
C23_NoHeaderUpdateLost ==
    [][ExplicitFreezeDrops =>
          /\ RunFound(volatile, run_uid)
          /\ RunFound(permanent', run_uid)
          /\ GetRun(permanent', run_uid).header = GetRun(volatile, run_uid).header
          /\ volatile'.header = <<>>]_vars

\* the step in which freeze, past the executor shutdowns, writes the final
\* counts and goes on to its end
FreezeWritesFinalCounts ==
    /\ caller.pc = "join"
    /\ caller.op \in {"stop", "close"}
    /\ caller'.pc = "idle"

\* C24: when freeze writes the final event and datum counts the count worker
\* has left its loop, and a count worker that has left its loop takes no
\* further step: none of its header updates comes after the final counts; the
\* updates it does make leave the event_count and datum_count fields alone
C24_CountWorkerEndsBeforeFinalCounts ==
    [][/\ FreezeWritesFinalCounts => cw.pc = "done"
       /\ cw.pc = "done" => cw' = cw
       /\ cw' # cw =>
            /\ Len(volatile'.header) = Len(volatile.header)
            /\ \A i \in 1..Len(volatile.header) :
                  /\ volatile'.header[i].event_count = volatile.header[i].event_count
                  /\ volatile'.header[i].datum_count = volatile.header[i].datum_count]_vars

\* a freeze has come to its end with the final counts written to a header the
\* count worker had updated before
C24_Witness ==
    /\ caller.pc = "idle"
    /\ ret.op \in {"stop", "close"}
    /\ cw.pc = "done"
    /\ cw.aliased
    /\ \E i \in 1..Len(volatile.header) :
          /\ volatile.header[i].event_count.is_set
          /\ \E d \in Descriptors : volatile.header[i].counts[d] > 0

====
